---- MODULE Spec2Model ----
(***************************************************************************)
(* Model of sim_pipeline/image_simulation.py: the image-simulation glue    *)
(* functions sharp_image, sharp_rgb_image, point_source_image_properties   *)
(* and point_source_image.                                                 *)
(*                                                                         *)
(* Numbers.  Real quantities are kept exact:                               *)
(*   - times and pixel coordinates are rationals <<num, den>>, den > 0,    *)
(*     in lowest terms;                                                    *)
(*   - magnitudes and zero points are integers counting half magnitudes    *)
(*     (0.5 mag), so that 2.5 mag is 5 units;                              *)
(*   - an amplitude a = 10^(k/5) is irrational in general and is kept as   *)
(*     its fifth power a^5 = 10^k, an exact positive rational.  x |-> x^5  *)
(*     is strictly increasing on the positive reals, so equality and order *)
(*     of amplitudes are equality and order of their fifth powers.         *)
(***************************************************************************)
EXTENDS Integers, Sequences, FiniteSets, TLC

VARIABLES
    pc,               \* "idle": no call in progress; "returned": a call has ended
    lens_class,       \* the lens descriptor handed to every call (never written)
    call,             \* the function called last and its arguments
    outcome,          \* how that call ended: a return or the exception raised
    returned_images,  \* the image (list) the call returned, <<>> when none
    returned_table,   \* the table point_source_image_properties returned
    image_requests,   \* the image_model.image(...) requests made, in order
    rendered,         \* the point_source_rendering(...) requests made, in order
    observer_queries, \* the arguments passed to image_observer_times, in order
    conversions       \* the magnitude-to-amplitude conversions made, in order

vars == <<pc, lens_class, call, outcome, returned_images, returned_table,
          image_requests, rendered, observer_queries, conversions>>

---------------------------------------------------------------------------
(* Bounds of the model                                                     *)

MaxImages == 3      \* lensed images of a lens, and PSF kernels of a call
MaxTimes == 2       \* observation times of a variability specification

\* The values the inputs are drawn from.  Magnitudes, zero points and 'amp'
\* count half magnitudes; delays are days; start times are in the unit of
\* the observation-time sequence.
Mags == {40, 41}
ZeroPoints == {40, 42}
DelaySteps == {0, 1}
Starts == {0, 1}
Amps == {0, 1}
PixelScales == {1, 2}
NumPixels == {3}
Bands == {"g", "r", "i"}
Units == {"day", "hour", "minute", "second"}
Models == {"sinusoidal", "linear"}

---------------------------------------------------------------------------
(* Exact rational arithmetic                                               *)

Abs(x) == IF x < 0 THEN -x ELSE x

RECURSIVE GCD(_, _)
GCD(a, b) == IF b = 0 THEN a ELSE GCD(b, a % b)

Rat(n, d) ==
    LET s == IF d < 0 THEN -1 ELSE 1
        g == GCD(Abs(n), Abs(d))
    IN  <<(s * n) \div g, (s * d) \div g>>

RatAdd(p, q) == Rat(p[1] * q[2] + q[1] * p[2], p[2] * q[2])
RatSub(p, q) == Rat(p[1] * q[2] - q[1] * p[2], p[2] * q[2])
RatMul(p, q) == Rat(p[1] * q[1], p[2] * q[2])
RatDiv(p, q) == Rat(p[1] * q[2], p[2] * q[1])
RatLess(p, q) == p[1] * q[2] < q[1] * p[2]

RECURSIVE Pow(_, _)
Pow(b, e) == IF e = 0 THEN 1 ELSE b * Pow(b, e - 1)

\* 10 ** (k / 5) as its fifth power 10^k.
Pow10Fifths(k) == IF k >= 0 THEN <<Pow(10, k), 1>> ELSE <<1, Pow(10, -k)>>

\* The elements of a sequence, flattened from a sequence of sequences.
RECURSIVE Flatten(_)
Flatten(ss) == IF ss = <<>> THEN <<>> ELSE Head(ss) \o Flatten(Tail(ss))

---------------------------------------------------------------------------
(* The lens descriptor (lens_class) and what it answers                    *)

\* A lens with n images: image i lies at sky position (ra[i], dec[i]), has
\* lensed magnitude magnitude[i] and arrives delay[i] days after image 1.
Lens(n, mags, step) ==
    [n |-> n,
     lens_position |-> <<0, 0>>,
     ra |-> [i \in 1..n |-> 2 * i - n - 1],
     dec |-> [i \in 1..n |-> i - 1],
     magnitude |-> mags,
     delay |-> [i \in 1..n |-> (i - 1) * step]]

Lenses ==
    UNION {{Lens(n, mags, step) : mags \in [1..n -> Mags], step \in DelaySteps} :
           n \in 1..MaxImages}

image_positions(lens) == <<lens.ra, lens.dec>>

point_source_magnitude(lens, band) == lens.magnitude

\* The observer-frame time of every image for an observation at t_obs (days).
image_observer_times(lens, t_obs) ==
    [i \in 1..lens.n |-> RatSub(t_obs, <<lens.delay[i], 1>>)]

---------------------------------------------------------------------------
(* astropy units: a Quantity is a sequence of values with a unit           *)

SecondsPer(unit) ==
    CASE unit = "day" -> 86400
      [] unit = "hour" -> 3600
      [] unit = "minute" -> 60
      [] unit = "second" -> 1

Quantity(values, unit) == [value |-> values, unit |-> unit]

\* Quantity.to(unit): the same durations expressed in another unit.
to(q, unit) ==
    [value |-> [j \in 1..Len(q.value) |->
                    RatMul(q.value[j], <<SecondsPer(q.unit), SecondsPer(unit)>>)],
     unit |-> unit]

---------------------------------------------------------------------------
(* The variability function library                                        *)

\* Variability(**kwargs_variability).sinusoidal_variability: the magnitude
\* offset at time t.  A sine takes irrational values, so the model keeps what
\* the callers rely on: a fixed function of the time alone, of size at most
\* 'amp', and zero everywhere when 'amp' is zero.
sinusoidal_variability(kwargs_variability, t) ==
    kwargs_variability.amp * (((t[1] + 2 * t[2]) % 3) - 1)

---------------------------------------------------------------------------
(* lenstronomy: the pixel grid of SimAPI.data_class, PSF and rendering     *)

\* The grid SimAPI builds: num_pix pixels of size delta_pix centred on (0, 0).
data_class(num_pix, delta_pix) ==
    [nx |-> num_pix, ny |-> num_pix, transform_pix2angle |-> delta_pix,
     ra_at_xy_0 |-> Rat(-(num_pix - 1) * delta_pix, 2),
     dec_at_xy_0 |-> Rat(-(num_pix - 1) * delta_pix, 2)]

map_coord2pix(grid, ra, dec) ==
    <<RatDiv(RatSub(<<ra, 1>>, grid.ra_at_xy_0), <<grid.transform_pix2angle, 1>>),
      RatDiv(RatSub(<<dec, 1>>, grid.dec_at_xy_0), <<grid.transform_pix2angle, 1>>)>>

map_pix2coord(grid, x, y) ==
    <<RatAdd(grid.ra_at_xy_0, <<x * grid.transform_pix2angle, 1>>),
      RatAdd(grid.dec_at_xy_0, <<y * grid.transform_pix2angle, 1>>)>>

PixelGrid(nx, ny, transform_pix2angle, ra_at_xy_0, dec_at_xy_0) ==
    [nx |-> nx, ny |-> ny, transform_pix2angle |-> transform_pix2angle,
     ra_at_xy_0 |-> ra_at_xy_0, dec_at_xy_0 |-> dec_at_xy_0]

PSF(psf_type, kernel_point_source) ==
    [psf_type |-> psf_type, kernel_point_source |-> kernel_point_source]

\* PointSourceRendering(...).point_source_rendering(ra, dec, amp): the stamp
\* is determined by the request, which stands for it.
point_source_rendering(pixel_grid, supersampling_factor, psf, ra, dec, amp) ==
    [pixel_grid |-> pixel_grid, supersampling_factor |-> supersampling_factor,
     psf |-> psf, ra |-> ra, dec |-> dec, amp |-> amp]

---------------------------------------------------------------------------
(* astropy Table built from a list of columns                              *)

NoTable == [raised |-> TRUE, nrows |-> 0, colnames |-> <<>>, columns |-> <<>>]

\* Table([col_1, ..., col_k], names=...): every entry of the list is one
\* column and its length is the number of rows; columns of different lengths
\* raise ValueError ("Inconsistent data column lengths").
Table(cols, names) ==
    IF \A k \in 1..Len(cols) : Len(cols[k]) = Len(cols[1])
    THEN [raised |-> FALSE, nrows |-> Len(cols[1]), colnames |-> names, columns |-> cols]
    ELSE NoTable

\* table[name]: the column of that name.
Column(table, name) ==
    table.columns[CHOOSE k \in 1..Len(table.colnames) : table.colnames[k] = name]

---------------------------------------------------------------------------
(* simulate_image, sharp_image, sharp_rgb_image                            *)

\* One image_model.image(...) request of a SimAPI built for a band
\* configuration; noise tells whether noise_for_model was added to the image.
ImageRequest(band, num_pix, kwargs_single_band, kwargs_numerics, unconvolved, source_add, lens_light_add, point_source_add, noise) ==
    [band |-> band, numpix |-> num_pix, kwargs_single_band |-> kwargs_single_band,
     kwargs_numerics |-> kwargs_numerics, unconvolved |-> unconvolved,
     source_add |-> source_add, lens_light_add |-> lens_light_add,
     point_source_add |-> point_source_add, noise |-> noise]

\* The band configuration of sharp_image and point_source_image_properties.
kwargs_band(delta_pix, mag_zero_point) ==
    [pixel_scale |-> delta_pix, magnitude_zero_point |-> mag_zero_point,
     background_noise |-> 0, psf_type |-> "NONE", exposure_time |-> 1]

simulate_image_request(band, num_pix, add_noise, observatory) ==
    ImageRequest(band, num_pix,
                 [observatory |-> observatory, band |-> band],
                 [point_source_supersampling_factor |-> 1, supersampling_factor |-> 3],
                 FALSE, TRUE, TRUE, TRUE, add_noise)

\* Faulty variant of sharp_image_request: with_deflector is ignored.
sharp_image_request_always_deflector(band, mag_zero_point, delta_pix, num_pix, with_deflector) ==
    ImageRequest(band, num_pix, kwargs_band(delta_pix, mag_zero_point),
                 [supersampling_factor |-> 1],
                 TRUE, TRUE, TRUE, FALSE, FALSE)

sharp_image_request(band, mag_zero_point, delta_pix, num_pix, with_deflector) ==
    ImageRequest(band, num_pix, kwargs_band(delta_pix, mag_zero_point),
                 [supersampling_factor |-> 1],
                 TRUE, TRUE, with_deflector, FALSE, FALSE)

\* sharp_rgb_image: three sharp images, with_deflector left at its default.
sharp_rgb_requests(rgb_band_list, mag_zero_point, delta_pix, num_pix) ==
    [k \in 1..3 |-> sharp_image_request(rgb_band_list[k], mag_zero_point,
                                        delta_pix, num_pix, TRUE)]

---------------------------------------------------------------------------
(* point_source_image_properties                                           *)

\* One magnitude-to-amplitude conversion: counts = 10 ** (-delta_m / 2.5).
\* With magnitudes in half magnitudes, -delta_m / 2.5 is -delta_m / 5.
Conversion(mag, mag_zero_point, counts) ==
    [mag |-> mag, zero_point |-> mag_zero_point, counts |-> counts]

\* Faulty variant of image_amplitude: the difference is taken the wrong way.
image_amplitude_reversed(image_magnitude, mag_zero_point) ==
    [i \in 1..Len(image_magnitude) |->
        LET delta_m == mag_zero_point - image_magnitude[i]
        IN  Pow10Fifths(-delta_m)]

image_amplitude(image_magnitude, mag_zero_point) ==
    [i \in 1..Len(image_magnitude) |->
        LET delta_m == image_magnitude[i] - mag_zero_point
        IN  Pow10Fifths(-delta_m)]

TableNames ==
    <<"deflector_pix", "image_pix", "ra_image", "dec_image", "image_amplitude",
      "image_magnitude", "radec_at_xy_0">>

\* The whole function: the table it returns (raised when Table raises) and
\* the conversions it made on the way.
PointSourceImageProperties(lens, band, mag_zero_point, delta_pix, num_pix) ==
    LET image_data == data_class(num_pix, delta_pix)
        lens_center == lens.lens_position
        lens_pix_coordinate == map_coord2pix(image_data, lens_center[1], lens_center[2])
        ps_coordinate == image_positions(lens)
        ra_image_values == ps_coordinate[1]
        dec_image_values == ps_coordinate[2]
        image_magnitude == point_source_magnitude(lens, band)
        image_pix_coordinate ==
            [i \in 1..Len(ra_image_values) |->
                map_coord2pix(image_data, ra_image_values[i], dec_image_values[i])]
        radec_at_xy_0 == map_pix2coord(image_data, 0, 0)
        amplitude == image_amplitude(image_magnitude, mag_zero_point)
    IN  [table |-> Table(<<lens_pix_coordinate, image_pix_coordinate, ra_image_values,
                           dec_image_values, amplitude, image_magnitude,
                           radec_at_xy_0>>, TableNames),
         conversions |-> [i \in 1..Len(image_magnitude) |->
                            Conversion(image_magnitude[i], mag_zero_point, amplitude[i])]]

---------------------------------------------------------------------------
(* point_source_image                                                      *)

NoVariability ==
    [given |-> FALSE, time |-> Quantity(<<>>, "day"), variability_model |-> "",
     kwargs_variability |-> [amp |-> 0]]

VariabilitySpec(time, model, kwargs) ==
    [given |-> TRUE, time |-> time, variability_model |-> model,
     kwargs_variability |-> kwargs]

Returned == "returned"
UnsupportedModel == "ValueError: given model is not supported"
InconsistentColumns == "ValueError: Inconsistent data column lengths"
IndexOutOfRange == "IndexError: index out of range"

Min(a, b) == IF a <= b THEN a ELSE b

\* Faulty variant of normalize_time: the target unit is hour, not day.
normalize_time_to_hour(vtime) ==
    LET time1 == IF vtime.unit = "day" THEN vtime ELSE to(vtime, "hour")
    IN  IF vtime.unit = "minute" THEN to(vtime, "hour") ELSE time1

\* Faulty variant of normalize_time: only minutes are converted.
normalize_time_minute_only(vtime) ==
    IF vtime.unit = "minute" THEN to(vtime, "day") ELSE vtime

\* The time-unit normalization: day is kept, anything else goes through
\* .to(u.day); the minute test that follows converts a second time.
normalize_time(vtime) ==
    LET time1 == IF vtime.unit = "day" THEN vtime ELSE to(vtime, "day")
    IN  IF vtime.unit = "minute" THEN to(vtime, "day") ELSE time1

\* observed_time: one image_observer_times answer per observation time.
observed_time(lens, time) ==
    [j \in 1..Len(time.value) |-> image_observer_times(lens, time.value[j])]

\* np.array(observed_time).T.tolist() * u.day: indexed [image][time].
transformed_observed_time(observed) ==
    [i \in 1..Len(observed[1]) |-> [j \in 1..Len(observed) |-> observed[j][i]]]

\* Faulty variant of variable_mag: every image is given the times of image 1.
variable_mag_first_image(magnitude, kwargs_variability, transformed, ntimes) ==
    [i \in 1..Len(magnitude) |->
        [j \in 1..ntimes |->
            magnitude[i] + sinusoidal_variability(kwargs_variability, transformed[1][j])]]

variable_mag(magnitude, kwargs_variability, transformed, ntimes) ==
    [i \in 1..Len(magnitude) |->
        [j \in 1..ntimes |->
            magnitude[i] + sinusoidal_variability(kwargs_variability, transformed[i][j])]]

\* Faulty variant of variable_amp: the minus sign of the exponent is lost.
variable_amp_sign_lost(vmag, mag_zero_point) ==
    [i \in 1..Len(vmag) |->
        [j \in 1..Len(vmag[i]) |->
            LET delta_m == vmag[i][j] - mag_zero_point
            IN  Pow10Fifths(delta_m)]]

variable_amp(vmag, mag_zero_point) ==
    [i \in 1..Len(vmag) |->
        [j \in 1..Len(vmag[i]) |->
            LET delta_m == vmag[i][j] - mag_zero_point
            IN  Pow10Fifths(-delta_m)]]

\* The stamps of the loop without variability, for the images it reaches.
static_stamps(grid, psf_class, ra_image_values, dec_image_values, amp, reached) ==
    [i \in 1..reached |->
        point_source_rendering(grid, 1, psf_class[i], ra_image_values[i],
                               dec_image_values[i], amp[i])]

\* The stamps of the loop with variability, for the images it reaches.
variable_stamps(grid, psf_class, ra_image_values, dec_image_values, vamp, ntimes, reached) ==
    [i \in 1..reached |->
        [j \in 1..ntimes |->
            point_source_rendering(grid, 1, psf_class[i], ra_image_values[i],
                                   dec_image_values[i], vamp[i][j])]]

Ended(how, images, stamps, queries, convs) ==
    [outcome |-> how, images |-> images, rendered |-> stamps,
     observer_queries |-> queries, conversions |-> convs]

\* The whole function: how it ends, what it returns, and the requests it
\* made to its collaborators on the way, in order.
PointSourceImage(lens, band, mag_zero_point, delta_pix, num_pix, psf_kernels, variability) ==
    LET props == PointSourceImageProperties(lens, band, mag_zero_point, delta_pix, num_pix)
        image_data == props.table
    IN  IF image_data.raised
        THEN Ended(InconsistentColumns, <<>>, <<>>, <<>>, props.conversions)
        ELSE
        LET grid == PixelGrid(num_pix, num_pix, delta_pix,
                              Column(image_data, "radec_at_xy_0")[1],
                              Column(image_data, "radec_at_xy_0")[2])
            ra_image_values == Column(image_data, "ra_image")
            dec_image_values == Column(image_data, "dec_image")
            amp == Column(image_data, "image_amplitude")
            magnitude == point_source_magnitude(lens, band)
            psf_class == [i \in 1..Len(psf_kernels) |-> PSF("PIXEL", psf_kernels[i])]
            \* indexing ra_image_values past its end raises IndexError
            reached == Min(Len(psf_class), Len(ra_image_values))
            how == IF Len(psf_class) > reached THEN IndexOutOfRange ELSE Returned
        IN  IF ~variability.given
            THEN LET stamps == static_stamps(grid, psf_class, ra_image_values,
                                             dec_image_values, amp, reached)
                 IN  Ended(how, IF how = Returned THEN stamps ELSE <<>>, stamps,
                           <<>>, props.conversions)
            ELSE
            LET time == normalize_time(variability.time)
            IN  IF variability.variability_model # "sinusoidal"
                THEN Ended(UnsupportedModel, <<>>, <<>>, <<>>, props.conversions)
                ELSE
                LET observed == observed_time(lens, time)
                    transformed == transformed_observed_time(observed)
                    ntimes == Len(time.value)
                    vmag == variable_mag(magnitude, variability.kwargs_variability,
                                         transformed, ntimes)
                    vamp == variable_amp(vmag, mag_zero_point)
                    stamps == variable_stamps(grid, psf_class, ra_image_values,
                                              dec_image_values, vamp, ntimes, reached)
                    convs == Flatten([i \in 1..Len(vmag) |->
                                        [j \in 1..ntimes |->
                                            Conversion(vmag[i][j], mag_zero_point,
                                                       vamp[i][j])]])
                IN  Ended(how, IF how = Returned THEN stamps ELSE <<>>,
                          Flatten(stamps), time.value, props.conversions \o convs)

---------------------------------------------------------------------------
(* The calls a client can make                                             *)

RgbBandList == <<"i", "r", "g">>

Kernels(k) == [i \in 1..k |-> <<"kernel", i>>]

ObservationTimes(ntimes, start, unit) ==
    Quantity([j \in 1..ntimes |-> <<start + j - 1, 1>>], unit)

Variabilities ==
    {NoVariability} \cup
    {VariabilitySpec(ObservationTimes(ntimes, start, unit), model, [amp |-> a]) :
        ntimes \in 1..MaxTimes, start \in Starts, unit \in Units,
        model \in Models, a \in Amps}

Call(fn, band, mag_zero_point, delta_pix, num_pix, with_deflector, add_noise, psf_kernels, variability) ==
    [fn |-> fn, band |-> band, mag_zero_point |-> mag_zero_point,
     delta_pix |-> delta_pix, num_pix |-> num_pix, with_deflector |-> with_deflector,
     add_noise |-> add_noise, psf_kernels |-> psf_kernels, variability |-> variability]

NoCall == Call("none", "", 0, 0, 0, FALSE, FALSE, <<>>, NoVariability)

Init ==
    /\ pc = "idle"
    /\ lens_class \in Lenses
    /\ call = NoCall
    /\ outcome = "none"
    /\ returned_images = <<>>
    /\ returned_table = NoTable
    /\ image_requests = <<>>
    /\ rendered = <<>>
    /\ observer_queries = <<>>
    /\ conversions = <<>>

simulate_image(band, num_pix, add_noise) ==
    /\ pc = "idle"
    /\ pc' = "returned"
    /\ call' = Call("simulate_image", band, 0, 0, num_pix, FALSE, add_noise, <<>>,
                    NoVariability)
    /\ image_requests' = <<simulate_image_request(band, num_pix, add_noise, "LSST")>>
    /\ returned_images' = image_requests'
    /\ outcome' = Returned
    /\ UNCHANGED <<lens_class, returned_table, rendered, observer_queries, conversions>>

sharp_image(band, mag_zero_point, delta_pix, num_pix, with_deflector) ==
    /\ pc = "idle"
    /\ pc' = "returned"
    /\ call' = Call("sharp_image", band, mag_zero_point, delta_pix, num_pix,
                    with_deflector, FALSE, <<>>, NoVariability)
    /\ image_requests' = <<sharp_image_request(band, mag_zero_point, delta_pix, num_pix,
                                               with_deflector)>>
    /\ returned_images' = image_requests'
    /\ outcome' = Returned
    /\ UNCHANGED <<lens_class, returned_table, rendered, observer_queries, conversions>>

sharp_rgb_image(rgb_band_list, mag_zero_point, delta_pix, num_pix) ==
    /\ pc = "idle"
    /\ pc' = "returned"
    /\ call' = Call("sharp_rgb_image", "", mag_zero_point, delta_pix, num_pix,
                    TRUE, FALSE, <<>>, NoVariability)
    /\ image_requests' = sharp_rgb_requests(rgb_band_list, mag_zero_point, delta_pix,
                                            num_pix)
    \* make_lupton_rgb(image_r, image_g, image_b): determined by the three images
    /\ returned_images' = <<image_requests'>>
    /\ outcome' = Returned
    /\ UNCHANGED <<lens_class, returned_table, rendered, observer_queries, conversions>>

point_source_image_properties(band, mag_zero_point, delta_pix, num_pix) ==
    /\ pc = "idle"
    /\ pc' = "returned"
    /\ call' = Call("point_source_image_properties", band, mag_zero_point, delta_pix,
                    num_pix, FALSE, FALSE, <<>>, NoVariability)
    /\ LET run == PointSourceImageProperties(lens_class, band, mag_zero_point,
                                             delta_pix, num_pix)
       IN  /\ returned_table' = run.table
           /\ outcome' = IF run.table.raised THEN InconsistentColumns ELSE Returned
           /\ conversions' = run.conversions
    /\ UNCHANGED <<lens_class, returned_images, image_requests, rendered,
                   observer_queries>>

point_source_image(band, mag_zero_point, delta_pix, num_pix, psf_kernels, variability) ==
    /\ pc = "idle"
    /\ pc' = "returned"
    /\ call' = Call("point_source_image", band, mag_zero_point, delta_pix, num_pix,
                    FALSE, FALSE, psf_kernels, variability)
    /\ LET run == PointSourceImage(lens_class, band, mag_zero_point, delta_pix,
                                   num_pix, psf_kernels, variability)
       IN  /\ outcome' = run.outcome
           /\ returned_images' = run.images
           /\ rendered' = run.rendered
           /\ observer_queries' = run.observer_queries
           /\ conversions' = run.conversions
    /\ UNCHANGED <<lens_class, returned_table, image_requests>>

\* The caller takes the result (or the exception); nothing of the call is kept.
Return ==
    /\ pc = "returned"
    /\ pc' = "idle"
    /\ call' = NoCall
    /\ outcome' = "none"
    /\ returned_images' = <<>>
    /\ returned_table' = NoTable
    /\ image_requests' = <<>>
    /\ rendered' = <<>>
    /\ observer_queries' = <<>>
    /\ conversions' = <<>>
    /\ UNCHANGED lens_class

Next ==
    \/ \E band \in Bands, num_pix \in NumPixels, add_noise \in BOOLEAN :
            simulate_image(band, num_pix, add_noise)
    \/ \E band \in Bands, zp \in ZeroPoints, delta_pix \in PixelScales,
          num_pix \in NumPixels, with_deflector \in BOOLEAN :
            sharp_image(band, zp, delta_pix, num_pix, with_deflector)
    \/ \E zp \in ZeroPoints, delta_pix \in PixelScales, num_pix \in NumPixels :
            sharp_rgb_image(RgbBandList, zp, delta_pix, num_pix)
    \/ \E zp \in ZeroPoints, delta_pix \in PixelScales, num_pix \in NumPixels :
            point_source_image_properties("i", zp, delta_pix, num_pix)
    \/ \E zp \in ZeroPoints, delta_pix \in PixelScales, num_pix \in NumPixels,
          k \in 1..MaxImages, variability \in Variabilities :
            point_source_image("i", zp, delta_pix, num_pix, Kernels(k), variability)
    \/ Return

Spec == Init /\ [][Next]_vars

---------------------------------------------------------------------------
(* Properties                                                              *)

Done(fn) == pc = "returned" /\ call.fn = fn

SetMax(a, b) == IF a >= b THEN a ELSE b

\* The j-th observation time of the call, in days, from its number and unit.
TimeInDays(j) ==
    Rat(call.variability.time.value[j][1] * SecondsPer(call.variability.time.unit),
        call.variability.time.value[j][2] * 86400)

NumTimes == Len(call.variability.time.value)

\* C1: a point_source_image call whose variability names a model other than
\* 'sinusoidal' ends with the unsupported-model error, renders no stamp and
\* returns no image list.
C1_UnsupportedModelRejected ==
    (Done("point_source_image") /\ call.variability.given
        /\ call.variability.variability_model # "sinusoidal")
    => (outcome = UnsupportedModel /\ rendered = <<>> /\ returned_images = <<>>)

\* C2: with one PSF kernel per lensed image, point_source_image returns one
\* stamp per image without variability, and with a (sinusoidal) variability
\* of T observation times one entry per image holding T stamps each.
C2_OneStampPerImageAndTime ==
    (Done("point_source_image") /\ Len(call.psf_kernels) = lens_class.n
        /\ (call.variability.given => call.variability.variability_model = "sinusoidal"))
    => /\ outcome = Returned
       /\ Len(returned_images) = lens_class.n
       /\ call.variability.given =>
            \A i \in DOMAIN returned_images : Len(returned_images[i]) = NumTimes

\* C3: point_source_image_properties succeeds for any number of images and
\* returns a table of exactly one row whose fields hold the deflector pixel
\* coordinate, the image pixel and sky coordinates, the amplitudes, the
\* magnitudes and the sky coordinate of pixel (0, 0).
C3_PropertiesTableHasOneRow ==
    Done("point_source_image_properties")
    => /\ outcome = Returned
       /\ returned_table.nrows = 1
       /\ returned_table.colnames = TableNames
       /\ Len(Column(returned_table, "image_pix")) = lens_class.n
       /\ Column(returned_table, "ra_image") = lens_class.ra
       /\ Column(returned_table, "dec_image") = lens_class.dec
       /\ Len(Column(returned_table, "image_amplitude")) = lens_class.n
       /\ Column(returned_table, "image_magnitude") = lens_class.magnitude

\* C4: with zero time delay for every image and a variability function that
\* is zero at every time, every stamp [i][j] of the variability path is
\* rendered at the amplitude the path without variability uses for image i.
C4_ZeroVariabilityReducesToStatic ==
    (Done("point_source_image") /\ call.variability.given
        /\ (\A i \in 1..lens_class.n : lens_class.delay[i] = 0)
        /\ call.variability.kwargs_variability.amp = 0)
    => LET static == PointSourceImage(lens_class, call.band, call.mag_zero_point,
                                      call.delta_pix, call.num_pix, call.psf_kernels,
                                      NoVariability)
       IN  \A k \in DOMAIN rendered :
              rendered[k].amp = static.rendered[((k - 1) \div NumTimes) + 1].amp

C4_Witness ==
    /\ Done("point_source_image") /\ call.variability.given
    /\ \A i \in 1..lens_class.n : lens_class.delay[i] = 0
    /\ call.variability.kwargs_variability.amp = 0
    /\ outcome = Returned
    /\ NumTimes = 2 /\ Len(rendered) = 4
    /\ rendered[1].amp # rendered[3].amp

\* C5: whatever unit the observation times are given in, the values passed
\* to image_observer_times are those times expressed in days, one per
\* observation time and in their order.
C5_ObserverTimesInDays ==
    (Done("point_source_image") /\ call.variability.given)
    => /\ \A j \in DOMAIN observer_queries :
            /\ j <= NumTimes
            /\ observer_queries[j][1] * 86400 * call.variability.time.value[j][2]
                 = call.variability.time.value[j][1]
                     * SecondsPer(call.variability.time.unit) * observer_queries[j][2]
       /\ outcome \in {Returned, IndexOutOfRange} => Len(observer_queries) = NumTimes

C5_Witness ==
    /\ Done("point_source_image") /\ call.variability.given
    /\ call.variability.time.unit = "second"
    /\ Len(observer_queries) = 2
    /\ observer_queries[2] = <<1, 43200>>

\* C6: every render sharp_image requests is unconvolved, without noise, at
\* supersampling factor 1, with source light, without point sources, and
\* with deflector light exactly when with_deflector is true; its band
\* configuration has background noise 0, PSF type NONE and exposure time 1.
C6_SharpImageRequest ==
    (pc = "returned" /\ call.fn \in {"sharp_image", "sharp_rgb_image"})
    => /\ image_requests # <<>>
       /\ \A k \in DOMAIN image_requests :
            LET r == image_requests[k]
            IN  /\ r.unconvolved /\ ~r.noise
                /\ r.kwargs_numerics = [supersampling_factor |-> 1]
                /\ r.source_add /\ ~r.point_source_add
                /\ r.lens_light_add = call.with_deflector
                /\ r.kwargs_single_band.background_noise = 0
                /\ r.kwargs_single_band.psf_type = "NONE"
                /\ r.kwargs_single_band.exposure_time = 1

C6_Witness ==
    /\ Done("sharp_image") /\ ~call.with_deflector
    /\ Len(image_requests) = 1 /\ ~image_requests[1].lens_light_add

\* C8: every amplitude computed equals 10^(-(mag - zero_point)/2.5), is
\* strictly positive, and for a fixed zero point strictly decreases as the
\* magnitude increases; every stamp is rendered at such an amplitude.
\* (Amplitudes are fifth powers and magnitudes half magnitudes, so the
\* equation reads counts * 10^(mag - zero_point) = 1.)
C8_AmplitudeFormula ==
    /\ \A k \in DOMAIN conversions :
          LET c == conversions[k]
              d == c.mag - c.zero_point
          IN  /\ c.counts[1] > 0 /\ c.counts[2] > 0
              /\ c.counts[1] * Pow(10, SetMax(d, 0)) = c.counts[2] * Pow(10, SetMax(-d, 0))
    /\ \A k1, k2 \in DOMAIN conversions :
          (conversions[k1].zero_point = conversions[k2].zero_point
              /\ conversions[k1].mag < conversions[k2].mag)
          => RatLess(conversions[k2].counts, conversions[k1].counts)
    /\ \A k \in DOMAIN rendered :
          \E n \in DOMAIN conversions : conversions[n].counts = rendered[k].amp

C8_Witness ==
    /\ Done("point_source_image") /\ call.variability.given /\ outcome = Returned
    /\ \E k1, k2 \in DOMAIN conversions :
          /\ conversions[k1].mag < call.mag_zero_point
          /\ conversions[k2].mag > call.mag_zero_point
          /\ RatLess(conversions[k2].counts, conversions[k1].counts)

\* C9: in the variability path stamp [i][j] is rendered at the sky position
\* of image i with PSF kernel i, at the amplitude converted from magnitude[i]
\* plus the variability function at the i-th entry of
\* image_observer_times(t_j), t_j being the j-th observation time in days.
C9_StampUsesOwnImageAndTime ==
    (Done("point_source_image") /\ call.variability.given)
    => /\ \A k \in DOMAIN rendered :
            LET i == ((k - 1) \div NumTimes) + 1
                j == ((k - 1) % NumTimes) + 1
                t_ij == image_observer_times(lens_class, TimeInDays(j))[i]
                mag == lens_class.magnitude[i]
                         + sinusoidal_variability(call.variability.kwargs_variability, t_ij)
            IN  /\ rendered[k].ra = lens_class.ra[i]
                /\ rendered[k].dec = lens_class.dec[i]
                /\ rendered[k].psf.kernel_point_source = call.psf_kernels[i]
                /\ rendered[k].amp = Pow10Fifths(call.mag_zero_point - mag)
                /\ outcome = Returned => returned_images[i][j] = rendered[k]
       /\ outcome = Returned => Len(rendered) = Len(returned_images) * NumTimes

C9_Witness ==
    /\ Done("point_source_image") /\ call.variability.given /\ outcome = Returned
    /\ NumTimes = 2 /\ Len(returned_images) = 2
    /\ returned_images[1][1].amp # returned_images[1][2].amp
    /\ returned_images[1][1].amp # returned_images[2][1].amp
    /\ returned_images[1][2].amp # returned_images[2][2].amp
    /\ lens_class.magnitude[1] = lens_class.magnitude[2]

\* C10 (as claimed): only a sequence in minutes is converted to days; a
\* sequence in any other unit that is not day reaches image_observer_times
\* with its original numbers.
C10_OnlyMinutesConverted ==
    (Done("point_source_image") /\ call.variability.given)
    => \A j \in DOMAIN observer_queries :
          /\ call.variability.time.unit = "minute"
                => observer_queries[j] = TimeInDays(j)
          /\ call.variability.time.unit \notin {"day", "minute"}
                => observer_queries[j] = call.variability.time.value[j]

\* C10 (amended): a sequence in any unit other than day, minutes included,
\* is converted to days by .to(u.day); only a sequence in days is used as
\* given.
C10_EveryOtherUnitConverted ==
    (Done("point_source_image") /\ call.variability.given)
    => \A j \in DOMAIN observer_queries :
          observer_queries[j] =
              IF call.variability.time.unit = "day"
              THEN call.variability.time.value[j]
              ELSE to(call.variability.time, "day").value[j]

C10_Witness ==
    /\ Done("point_source_image") /\ call.variability.given
    /\ call.variability.time.unit = "hour"
    /\ observer_queries # <<>>
    /\ observer_queries[1] = <<1, 24>>
    /\ observer_queries[1] # call.variability.time.value[1]

====
